---- MODULE Spec2Model ----
(***************************************************************************)
(* Deck-Finder-Bot: the scraper module (withBrowser, withPage,            *)
(* getTopDecks, screenshotDeckPage, getDeckDetailedInfo,                  *)
(* checkWebsiteHealth; src/unnamed/part_000) and the /topdecks handler of *)
(* the bot (src/src/index.ts).                                            *)
(*                                                                         *)
(* One behaviour is one top-level entry: a /topdecks command, or a direct *)
(* call of one of the exported scraper functions.  Every await of the     *)
(* code is one step; every call of an external collaborator (puppeteer,   *)
(* telegraf, pdfkit, fs) either returns or throws, chosen with \E.        *)
(***************************************************************************)
EXTENDS Integers, Sequences, FiniteSets, TLC

(* ------------------------------ bounds -------------------------------- *)
\* rows of the listing page's table body
MaxRows == 4
\* rows of the listing page when the hrefs are told apart
MaxListRows == 2
\* largest limit a direct caller passes to getTopDecks
MaxLimit == 4

(* ------------------------- program constants -------------------------- *)
\* getTopDecks(3) in the /topdecks handler
HandlerLimit == 3
\* response?.status() === 200
StatusOk == 200

BASE_URL == <<"h", "t", "t", "p", "s", ":", "/", "/", "l">>

\* link?.getAttribute('href') of a row without a link
NoLink == <<"<null>">>
\* the file id of the PDF in the screenshots directory; a PNG's id is its
\* 1-based item index (deck_<now>_<i + 1>.png)
PdfFile == 0

(* ------------------------------ values -------------------------------- *)
None == [kind |-> "none", val |-> "none"]
Val(v) == [kind |-> "value", val |-> v]
Err(m) == [kind |-> "error", val |-> m]

Ev(e, n, ok) == [e |-> e, i |-> n, ok |-> ok]

Min(a, b) == IF a < b THEN a ELSE b

RECURSIVE SeqsUpTo(_, _)
\* all sequences over S of length at most n
SeqsUpTo(S, n) ==
  IF n = 0 THEN {<<>>}
  ELSE LET shorter == SeqsUpTo(S, n - 1)
       IN shorter \cup {Append(s, x) : s \in {t \in shorter : Len(t) = n - 1}, x \in S}

\* Array.prototype.slice(0, n) for n >= 0
Slice(s, n) == SubSeq(s, 1, Min(n, Len(s)))

\* String.prototype.startsWith
StartsWith(s, p) == Len(s) >= Len(p) /\ SubSeq(s, 1, Len(p)) = p

(* --------------------------- listing page ----------------------------- *)
\* a row of 'table tbody tr': the href and text of its first link (NoLink,
\* "" when it has none) and the text of its second cell ("" when absent)
RowKinds ==
  { [href |-> <<"/", "d">>, text |-> "A", player |-> "P"],
    [href |-> NoLink, text |-> "", player |-> ""] }

HasLink(row) == row.href # NoLink

\* the title of a row: link?.textContent?.trim() || `Deck ${index + 1}`
Title(row, index) ==
  IF row.text # "" THEN [text |-> row.text, n |-> 0]
  ELSE [text |-> "Deck", n |-> index + 1]

\* url.startsWith('http') ? url : baseUrl + url, url = href || ''
AbsoluteUrl(href) ==
  LET url == IF href = NoLink THEN <<>> ELSE href
  IN IF StartsWith(url, <<"h", "t", "t", "p">>) THEN url ELSE BASE_URL \o url

Player(row) == IF row.player # "" THEN row.player ELSE "Nao informado"

\* the object built for the row at 0-based index
DeckOf(row, index) ==
  [title |-> Title(row, index), url |-> AbsoluteUrl(row.href),
   position |-> index + 1, player |-> Player(row)]

\* page.evaluate of getTopDecks: the first `limit` rows, mapped
ExtractDecks(rs, limit) ==
  LET taken == Slice(rs, limit)
  IN [k \in 1..Len(taken) |-> DeckOf(taken[k], k - 1)]

(* ------------------------------- state -------------------------------- *)
VARIABLES
  rows,        \* the listing page: its 'table tbody tr' rows, in document order
  headLink,    \* the listing page: a link inside a table but outside its body rows
  pc,          \* position of the top-level entry (the /topdecks handler or a direct call)
  op,          \* the scraper function in progress, "none" outside a call
  spc,         \* position inside the scraper function
  limit,       \* getTopDecks' argument
  target,      \* screenshotDeckPage's item (1-based index; names its file)
  browser,     \* the browser handle of the call: none, open, closed, closeFailed
  page,        \* the page handle of the call: none, open, closed, closeFailed
  pend,        \* the inner operation's completion, held while the finally blocks run
  ret,         \* what the scraper function returned or threw
  fault,       \* an external collaborator failed during this call (timeout, crash)
  nav,         \* checkWebsiteHealth: what page.goto gave
  decks,       \* handler: the list getTopDecks returned
  idx,         \* handler: the loop variable i (0-based)
  imagePaths,  \* handler: imagePaths
  tempFiles,   \* handler: tempFiles
  files,       \* the screenshots directory: ids of the files in it
  pdf,         \* the PDF document written by generatePDF: its pages
  history,     \* history.txt: its lines
  slog,        \* the call in progress: its browser and page events, in order
  log,         \* the entry in progress: its calls, sink sends and file steps, in order
  now,         \* overlapping batches: Date.now(), in milliseconds
  bat,         \* overlapping batches: the state of each /topdecks handler
  disk         \* overlapping batches: the screenshots directory, <<path, writer>>

sessionVars == <<op, spc, limit, target, browser, page, pend, ret, fault, nav, slog>>
handlerVars == <<decks, idx, imagePaths, tempFiles, pdf, history>>
pageVars == <<rows, headLink>>
overlapVars == <<now, bat, disk>>
vars == <<rows, headLink, pc, op, spc, limit, target, browser, page, pend, ret,
          fault, nav, slog, decks, idx, imagePaths, tempFiles, files, pdf, history, log,
          now, bat, disk>>

\* the /topdecks handlers that may be in progress at the same time
Batches == {1, 2}

\* a handler that has not been dispatched: imagePaths = tempFiles = [], i = 0;
\* `stamps` keeps, for each entry of tempFiles, the clock value and the item
\* index its name was made from, `lost` the paths the handler read and did
\* not find as it wrote them
IdleBatch ==
  [pc |-> "idle", n |-> 0, idx |-> 0, cur |-> <<>>, curStamp |-> <<>>,
   imagePaths |-> <<>>, tempFiles |-> <<>>, stamps |-> <<>>, lost |-> {}]

Ops == {"getTopDecks", "screenshotDeckPage", "getDeckDetailedInfo", "checkWebsiteHealth"}

NoNav == [kind |-> "none", present |-> FALSE, status |-> 0]
NavThrew == [kind |-> "threw", present |-> FALSE, status |-> 0]
\* page.goto resolves to a response, or to null
Responses ==
  {[kind |-> "response", present |-> FALSE, status |-> 0]}
    \cup {[kind |-> "response", present |-> TRUE, status |-> s] : s \in {200, 204, 301, 404}}

\* nothing has started: no entry, no call, empty directory and history
Quiescent ==
  /\ pc = "idle"
  /\ op = "none" /\ spc = "none" /\ limit = 0 /\ target = 0
  /\ browser = "none" /\ page = "none"
  /\ pend = None /\ ret = None /\ fault = FALSE /\ nav = NoNav
  /\ decks = <<>> /\ idx = 0 /\ imagePaths = <<>> /\ tempFiles = <<>>
  /\ files = {} /\ pdf = <<>> /\ history = <<>>
  /\ slog = <<>> /\ log = <<>>
  /\ now = 0 /\ bat = [b \in Batches |-> IdleBatch] /\ disk = {}

Init ==
  /\ rows \in SeqsUpTo(RowKinds, MaxRows)
  /\ headLink \in BOOLEAN
  /\ Quiescent

(* --------------------- withBrowser / withPage ------------------------- *)
\* where a scraper function starts: screenshotDeckPage first awaits
\* ensureScreenshotsDir, the others go straight to withBrowser
FirstStep(o) == IF o = "screenshotDeckPage" THEN "ensureDir" ELSE "launch"

\* a scraper function is entered: fresh handles, nothing pending
Enter(o, lim, tgt) ==
  /\ op' = o /\ spc' = FirstStep(o) /\ limit' = lim /\ target' = tgt
  /\ browser' = "none" /\ page' = "none"
  /\ pend' = None /\ ret' = None /\ fault' = FALSE /\ nav' = NoNav
  /\ slog' = <<>>
  /\ log' = Append(log, Ev(o, IF o = "getTopDecks" THEN lim ELSE tgt, TRUE))

\* the caller took the result: the call's handles and events are gone
Release ==
  /\ op' = "none" /\ spc' = "none" /\ limit' = 0 /\ target' = 0
  /\ browser' = "none" /\ page' = "none"
  /\ pend' = None /\ ret' = None /\ fault' = FALSE /\ nav' = NoNav
  /\ slog' = <<>>

\* mutant: the close sits after the await instead of in a finally block
WithBrowserAfter_NoFinally(threw) == IF threw THEN "leave" ELSE "browserClose"

\* withBrowser: try { return await operation(browser) } finally { close }:
\* where control goes when operation(browser) completed, by return or throw
WithBrowserAfter(threw) == "browserClose"

\* withPage: try { return await operation(page) } finally { close }
WithPageAfter(threw) == "pageClose"

\* withPage: setViewport and setUserAgent are awaited before the try, so a
\* throw there leaves withPage at once and lands in withBrowser's finally
ConfigFailure == WithBrowserAfter(TRUE)

\* what the caller of the scraper function gets for what withBrowser gave:
\* checkWebsiteHealth catches every error and returns false
Propagate(o, r) ==
  IF o = "checkWebsiteHealth" /\ r.kind = "error" THEN Val(FALSE) ELSE r

\* withBrowser is left (its finally block has run, or the launch threw before
\* the try): the scraper function returns to its caller
Leave ==
  /\ spc = "leave"
  /\ ret' = Propagate(op, pend)
  /\ spc' = "returned"
  /\ slog' = Append(slog, Ev("return", 0, Propagate(op, pend).kind = "value"))
  /\ UNCHANGED <<pageVars, overlapVars, pc, log, op, limit, target, browser, page, pend, fault, nav,
                 handlerVars, files>>

\* screenshotDeckPage: await ensureScreenshotsDir() (mkdir, rethrown on failure)
EnsureScreenshotsDir ==
  /\ spc = "ensureDir"
  /\ \/ /\ spc' = "launch"
        /\ UNCHANGED <<pend, fault>>
     \/ /\ fault' = TRUE
        /\ pend' = Err([msg |-> "mkdir", origin |-> "ensureDir"])
        /\ spc' = "leave"
  /\ UNCHANGED <<pageVars, overlapVars, pc, log, op, limit, target, browser, page, ret, nav,
                 handlerVars, files, slog>>

\* const browser = await puppeteer.launch(...): outside the try
Launch ==
  /\ spc = "launch"
  /\ \/ /\ browser' = "open"
        /\ spc' = "newPage"
        /\ slog' = Append(slog, Ev("launch", 0, TRUE))
        /\ UNCHANGED <<pend, fault>>
     \/ /\ fault' = TRUE
        /\ pend' = Err([msg |-> "launch", origin |-> "launch"])
        /\ spc' = "leave"
        /\ UNCHANGED <<browser, slog>>
  /\ UNCHANGED <<pageVars, overlapVars, pc, log, op, limit, target, page, ret, nav, handlerVars, files>>

\* const page = await browser.newPage(): inside withBrowser's try
NewPage ==
  /\ spc = "newPage"
  /\ \/ /\ page' = "open"
        /\ spc' = "setViewport"
        /\ slog' = Append(slog, Ev("newPage", 0, TRUE))
        /\ UNCHANGED <<pend, fault>>
     \/ /\ fault' = TRUE
        /\ pend' = Err([msg |-> "newPage", origin |-> "newPage"])
        /\ spc' = WithBrowserAfter(TRUE)
        /\ UNCHANGED <<page, slog>>
  /\ UNCHANGED <<pageVars, overlapVars, pc, log, op, limit, target, browser, ret, nav, handlerVars, files>>

\* await page.setViewport(...); await page.setUserAgent(...)
Configure ==
  /\ spc \in {"setViewport", "setUserAgent"}
  /\ \/ /\ spc' = IF spc = "setViewport" THEN "setUserAgent" ELSE "goto"
        /\ UNCHANGED <<pend, fault>>
     \/ /\ fault' = TRUE
        /\ pend' = Err([msg |-> spc, origin |-> spc])
        /\ spc' = ConfigFailure
  /\ UNCHANGED <<pageVars, overlapVars, pc, log, op, limit, target, browser, page, ret, nav,
                 handlerVars, files, slog>>

\* mutant: a rejected close replaces the operation's completion
CloseOutcome_Rethrown(r, ok) ==
  IF ok THEN r ELSE Err([msg |-> "close", origin |-> "close"])

\* close().catch(error => log): what the finally block leaves of the inner
\* operation's completion r when the close resolved (ok) or rejected
CloseOutcome(r, ok) == r

\* finally { await page.close().catch(log) }
PageClose ==
  /\ spc = "pageClose"
  /\ \E ok \in BOOLEAN :
       /\ page' = IF ok THEN "closed" ELSE "closeFailed"
       /\ slog' = Append(slog, Ev("page.close", 0, ok))
       /\ pend' = CloseOutcome(pend, ok)
  /\ spc' = WithBrowserAfter(pend.kind = "error")
  /\ UNCHANGED <<pageVars, overlapVars, pc, log, op, limit, target, browser, ret, fault, nav,
                 handlerVars, files>>

\* finally { await browser.close().catch(log) }, then withBrowser completes
\* the way operation(browser) did
BrowserClose ==
  /\ spc = "browserClose"
  /\ \E ok \in BOOLEAN :
       /\ browser' = IF ok THEN "closed" ELSE "closeFailed"
       /\ slog' = Append(slog, Ev("browser.close", 0, ok))
       /\ pend' = CloseOutcome(pend, ok)
  /\ spc' = "leave"
  /\ UNCHANGED <<pageVars, overlapVars, pc, log, op, limit, target, page, ret, fault, nav,
                 handlerVars, files>>

(* ------------------- the operations run on the page -------------------- *)
\* mutant: getTopDecks swallows the error and returns what it has, an empty list
OperationCatch_EmptyList(o, origin) ==
  CASE o = "getTopDecks" -> Val(<<>>)
    [] o = "screenshotDeckPage" ->
         Err([msg |-> "Falha ao capturar screenshot", origin |-> origin])
    [] o = "getDeckDetailedInfo" -> Val("null")
    [] OTHER -> Err([msg |-> origin, origin |-> origin])

\* what the operation's own try/catch makes of an error thrown at `origin`:
\* getTopDecks and screenshotDeckPage throw one wrapped error,
\* getDeckDetailedInfo returns null, checkWebsiteHealth has no inner catch
OperationCatch(o, origin) ==
  CASE o = "getTopDecks" -> Err([msg |-> "Falha ao buscar decks", origin |-> origin])
    [] o = "screenshotDeckPage" ->
         Err([msg |-> "Falha ao capturar screenshot", origin |-> origin])
    [] o = "getDeckDetailedInfo" -> Val("null")
    [] OTHER -> Err([msg |-> origin, origin |-> origin])

\* the operation given to withPage completes with r
Complete(r) ==
  /\ pend' = r
  /\ spc' = WithPageAfter(r.kind = "error")

\* mutant: any response counts as healthy
HealthResult_AnyResponse(response) == response.present

\* return response?.status() === 200
HealthResult(response) == response.present /\ response.status = StatusOk

\* the step after a page.goto that resolved
AfterGoto(o) == IF o = "getDeckDetailedInfo" THEN "evaluate" ELSE "waitForSelector"

\* await page.goto(...)
Goto ==
  /\ spc = "goto"
  /\ \/ /\ op = "checkWebsiteHealth"
        /\ \E response \in Responses :
             /\ nav' = response
             /\ Complete(Val(HealthResult(response)))
        /\ UNCHANGED fault
     \/ /\ op # "checkWebsiteHealth"
        /\ spc' = AfterGoto(op)
        /\ UNCHANGED <<pend, fault, nav>>
     \/ /\ fault' = TRUE
        /\ nav' = IF op = "checkWebsiteHealth" THEN NavThrew ELSE nav
        /\ Complete(OperationCatch(op, "goto"))
  /\ UNCHANGED <<pageVars, overlapVars, pc, log, op, limit, target, browser, page, ret,
                 handlerVars, files, slog>>

\* DECK_TABLE_SELECTOR 'table a' matches: a link in some table of the page
TableLinkPresent ==
  headLink \/ \E k \in 1..Len(rows) : HasLink(rows[k])

\* await page.waitForSelector(...): the listing's selector resolves only when
\* the page has a table link, and times out otherwise; a deck page may or may
\* not hold '.decklist-container'
WaitForSelector ==
  /\ spc = "waitForSelector"
  /\ \/ /\ op = "getTopDecks" => TableLinkPresent
        /\ spc' = IF op = "getTopDecks" THEN "evaluate" ELSE "query"
        /\ UNCHANGED <<pend, fault>>
     \/ /\ op = "getTopDecks" /\ ~TableLinkPresent
        /\ Complete(OperationCatch(op, "waitForSelector"))
        /\ UNCHANGED fault
     \/ /\ fault' = TRUE
        /\ Complete(OperationCatch(op, "waitForSelector"))
  /\ UNCHANGED <<pageVars, overlapVars, pc, log, op, limit, target, browser, page, ret, nav,
                 handlerVars, files, slog>>

\* await page.evaluate(...): getTopDecks maps the rows, getDeckDetailedInfo
\* reads the cards
Evaluate ==
  /\ spc = "evaluate"
  /\ \/ /\ Complete(IF op = "getTopDecks" THEN Val(ExtractDecks(rows, limit))
                    ELSE Val("info"))
        /\ UNCHANGED fault
     \/ /\ fault' = TRUE
        /\ Complete(OperationCatch(op, "evaluate"))
  /\ UNCHANGED <<pageVars, overlapVars, pc, log, op, limit, target, browser, page, ret, nav,
                 handlerVars, files, slog>>

\* const element = await page.$(DECKLIST_SELECTOR); if (!element) throw
Query ==
  /\ spc = "query"
  /\ \/ /\ spc' = "screenshot"
        /\ UNCHANGED <<pend, fault>>
     \/ /\ fault' = TRUE
        /\ Complete(OperationCatch(op, "query"))
  /\ UNCHANGED <<pageVars, overlapVars, pc, log, op, limit, target, browser, page, ret, nav,
                 handlerVars, files, slog>>

\* await element.screenshot({ path }): writes the file, or resolves without
\* the file on storage, or throws
Screenshot ==
  /\ spc = "screenshot"
  /\ \/ /\ files' = files \cup {target}
        /\ spc' = "access"
        /\ UNCHANGED <<pend, fault>>
     \/ /\ fault' = TRUE
        /\ spc' = "access"
        /\ UNCHANGED <<pend, files>>
     \/ /\ fault' = TRUE
        /\ Complete(OperationCatch(op, "screenshot"))
        /\ UNCHANGED files
  /\ UNCHANGED <<pageVars, overlapVars, pc, log, op, limit, target, browser, page, ret, nav,
                 handlerVars, slog>>

\* try { await fs.access(screenshotPath) } catch { throw 'Falha ao salvar' };
\* return screenshotPath
Access ==
  /\ spc = "access"
  /\ IF target \in files
       THEN Complete(Val(target))
       ELSE Complete(OperationCatch(op, "access"))
  /\ UNCHANGED <<pageVars, overlapVars, pc, log, op, limit, target, browser, page, ret, fault, nav,
                 handlerVars, files, slog>>

Session ==
  \/ EnsureScreenshotsDir \/ Launch \/ NewPage \/ Configure
  \/ Goto \/ WaitForSelector \/ Evaluate \/ Query \/ Screenshot \/ Access
  \/ PageClose \/ BrowserClose \/ Leave

(* ------------------------ the /topdecks handler ------------------------ *)
Range(s) == {s[k] : k \in 1..Len(s)}

\* the handler's outer catch: log, then reply with the general failure message
Catch == "catch"

\* a call of the delivery sink (ctx.reply, replyWithPhoto, replyWithDocument,
\* deleteMessage) named e for item n resolves and the handler goes to `next`,
\* or throws and the handler goes to `onThrow`
Send(e, n, next, onThrow) ==
  \E ok \in BOOLEAN :
    /\ log' = Append(log, Ev(e, n, ok))
    /\ pc' = IF ok THEN next ELSE onThrow

\* mutant: the empty test is missing
IsEmptyResult_Never(ds) == FALSE

\* if (!decks || decks.length === 0)
IsEmptyResult(ds) == Len(ds) = 0

\* for (let i = 0; i < decks.length; i++): the loop test, then either the body
\* or the code after the loop (if (imagePaths.length > 0) ... else history)
LoopHead(i, ds, paths) ==
  IF i < Len(ds) THEN "callScreenshot"
  ELSE IF Len(paths) > 0 THEN "generatePDF" ELSE "saveToHistory"

\* mutant: the loop variable is not advanced
NextIndex_Stuck(i) == i

\* i++
NextIndex(i) == i + 1

\* mutant: the title is written on every page
PdfPages_TitleEveryPage(paths) ==
  [k \in 1..Len(paths) |-> [img |-> paths[k], title |-> TRUE]]

\* generatePDF: one page per image path, in order; the title text is written
\* when index === 0
PdfPages(paths) ==
  [k \in 1..Len(paths) |-> [img |-> paths[k], title |-> (k - 1 = 0)]]

\* saveToHistory: one line per deck, `[date] title - url`
HistoryLines(ds) == [k \in 1..Len(ds) |-> [title |-> ds[k].title, url |-> ds[k].url]]

\* bot.command('topdecks', ...) is dispatched
Command ==
  /\ pc = "idle"
  /\ pc' = "replyProcessing"
  /\ log' = Append(log, Ev("command", 0, TRUE))
  /\ UNCHANGED <<pageVars, overlapVars, sessionVars, handlerVars, files>>

\* const processingMessage = await ctx.reply('Buscando ...')
ReplyProcessing ==
  /\ pc = "replyProcessing"
  /\ Send("processing", 0, "ensureDirectories", Catch)
  /\ UNCHANGED <<pageVars, overlapVars, sessionVars, handlerVars, files>>

\* await ensureDirectories(): mkdir, rethrown on failure
EnsureDirectories ==
  /\ pc = "ensureDirectories"
  /\ \E ok \in BOOLEAN :
       /\ pc' = IF ok THEN "callGetTopDecks" ELSE Catch
       /\ log' = Append(log, Ev("ensureDirectories", 0, ok))
  /\ UNCHANGED <<pageVars, overlapVars, sessionVars, handlerVars, files>>

\* const decks = await getTopDecks(3): the call
CallGetTopDecks ==
  /\ pc = "callGetTopDecks"
  /\ Enter("getTopDecks", HandlerLimit, 0)
  /\ pc' = "awaitGetTopDecks"
  /\ UNCHANGED <<pageVars, overlapVars, handlerVars, files>>

\* getTopDecks returned or threw; the empty test; imagePaths = tempFiles = []
AwaitGetTopDecks ==
  /\ pc = "awaitGetTopDecks" /\ spc = "returned"
  /\ Release
  /\ log' = Append(log, Ev("listed", IF ret.kind = "value" THEN Len(ret.val) ELSE 0,
                           ret.kind = "value"))
  /\ IF ret.kind = "error"
       THEN /\ pc' = Catch
            /\ UNCHANGED <<decks, idx, imagePaths, tempFiles>>
       ELSE /\ decks' = ret.val
            /\ idx' = 0 /\ imagePaths' = <<>> /\ tempFiles' = <<>>
            /\ pc' = IF IsEmptyResult(ret.val) THEN "replyEmpty"
                     ELSE LoopHead(0, ret.val, <<>>)
  /\ UNCHANGED <<pageVars, overlapVars, pdf, history, files>>

\* await ctx.reply('Nenhum deck encontrado'); return
ReplyEmpty ==
  /\ pc = "replyEmpty"
  /\ Send("empty", 0, "done", Catch)
  /\ UNCHANGED <<pageVars, overlapVars, sessionVars, handlerVars, files>>

\* await screenshotDeckPage(deck.url, `deck_${Date.now()}_${i + 1}.png`): the call
CallScreenshot ==
  /\ pc = "callScreenshot"
  /\ Enter("screenshotDeckPage", 0, idx + 1)
  /\ pc' = "awaitScreenshot"
  /\ UNCHANGED <<pageVars, overlapVars, handlerVars, files>>

\* screenshotDeckPage returned (push the path on imagePaths and tempFiles) or
\* threw (the item's catch block)
AwaitScreenshot ==
  /\ pc = "awaitScreenshot" /\ spc = "returned"
  /\ Release
  /\ log' = Append(log, Ev("captured", idx + 1, ret.kind = "value"))
  /\ IF ret.kind = "value"
       THEN /\ imagePaths' = Append(imagePaths, ret.val)
            /\ tempFiles' = Append(tempFiles, ret.val)
            /\ pc' = "replyWithPhoto"
       ELSE /\ pc' = "replySkip"
            /\ UNCHANGED <<imagePaths, tempFiles>>
  /\ UNCHANGED <<pageVars, overlapVars, decks, idx, pdf, history, files>>

\* mutant: a throw of replyWithPhoto is swallowed and the loop goes on
PhotoFailure_Swallowed(i, ds, paths) == LoopHead(NextIndex(i), ds, paths)

\* a throw of replyWithPhoto inside the item's try block lands in the item's
\* catch block, with the path already pushed on imagePaths and tempFiles
PhotoFailure(i, ds, paths) == "replySkip"

\* await ctx.replyWithPhoto(...); the 1 s delay; i++
ReplyWithPhoto ==
  /\ pc = "replyWithPhoto"
  /\ Send("photo", idx + 1, LoopHead(NextIndex(idx), decks, imagePaths),
          PhotoFailure(idx, decks, imagePaths))
  /\ idx' = IF pc' = "replySkip" THEN idx ELSE NextIndex(idx)
  /\ UNCHANGED <<pageVars, overlapVars, sessionVars, decks, imagePaths, tempFiles, pdf, history, files>>

\* catch (deckError) { log; await ctx.reply(`Erro ao processar o deck ${i + 1}`) }; i++
ReplySkip ==
  /\ pc = "replySkip"
  /\ Send("skip", idx + 1, LoopHead(NextIndex(idx), decks, imagePaths), Catch)
  /\ idx' = IF pc' = Catch THEN idx ELSE NextIndex(idx)
  /\ UNCHANGED <<pageVars, overlapVars, sessionVars, decks, imagePaths, tempFiles, pdf, history, files>>

\* const pdfPath = await generatePDF(imagePaths); tempFiles.push(pdfPath).
\* createWriteStream opens the file; doc.image throws on an unreadable image and
\* the stream may emit 'error': the promise rejects, with or without the file
GeneratePDF ==
  /\ pc = "generatePDF"
  /\ \/ /\ Range(imagePaths) \subseteq files
        /\ files' = files \cup {PdfFile}
        /\ pdf' = PdfPages(imagePaths)
        /\ tempFiles' = Append(tempFiles, PdfFile)
        /\ log' = Append(log, Ev("generatePDF", Len(imagePaths), TRUE))
        /\ pc' = "replyWithDocument"
     \/ /\ \E opened \in BOOLEAN :
             files' = IF opened THEN files \cup {PdfFile} ELSE files
        /\ log' = Append(log, Ev("generatePDF", Len(imagePaths), FALSE))
        /\ pc' = "replyWarning"
        /\ UNCHANGED <<pdf, tempFiles>>
  /\ UNCHANGED <<pageVars, overlapVars, sessionVars, decks, idx, imagePaths, history>>

\* await ctx.replyWithDocument(...)
ReplyWithDocument ==
  /\ pc = "replyWithDocument"
  /\ Send("document", 0, "saveToHistory", "replyWarning")
  /\ UNCHANGED <<pageVars, overlapVars, sessionVars, handlerVars, files>>

\* catch (pdfError) { log; await ctx.reply('Erro ao gerar o PDF ...') }
ReplyWarning ==
  /\ pc = "replyWarning"
  /\ Send("warning", 0, "saveToHistory", Catch)
  /\ UNCHANGED <<pageVars, overlapVars, sessionVars, handlerVars, files>>

\* await saveToHistory(decks): appendFile, a failure is logged
SaveToHistory ==
  /\ pc = "saveToHistory"
  /\ \E ok \in BOOLEAN :
       /\ history' = IF ok THEN history \o HistoryLines(decks) ELSE history
       /\ log' = Append(log, Ev("saveToHistory", Len(decks), ok))
  /\ pc' = "cleanupFiles"
  /\ UNCHANGED <<pageVars, overlapVars, sessionVars, decks, idx, imagePaths, tempFiles, pdf, files>>

\* mutant: the paths are unlinked one after another and the first failure
\* ends the loop
UnlinkAttempted_UntilFailure(paths, failed) ==
  LET bad == {k \in 1..Len(paths) : paths[k] \in failed}
  IN IF bad = {} THEN paths
     ELSE SubSeq(paths, 1, CHOOSE k \in bad : \A j \in bad : k <= j)

\* filePaths.map(filePath => fs.unlink(filePath)): the paths whose unlink is
\* started, given the set of paths whose unlink is going to fail
UnlinkAttempted(paths, failed) == paths

\* await cleanupFiles(tempFiles): Promise.all of one fs.unlink per path; a
\* rejection is logged.  An unlink of a file that is not there fails
CleanupFiles ==
  /\ pc = "cleanupFiles"
  /\ \E failed \in SUBSET Range(tempFiles) :
       LET tried == UnlinkAttempted(tempFiles, failed)
       IN /\ Range(tried) \ files \subseteq failed
          /\ files' = files \ (Range(tried) \ failed)
          /\ log' = log \o [k \in 1..Len(tried) |->
                              Ev("unlink", tried[k], tried[k] \notin failed)]
                        \o <<Ev("cleanupFiles", Len(tempFiles), failed = {})>>
  /\ pc' = "replyDone"
  /\ UNCHANGED <<pageVars, overlapVars, sessionVars, handlerVars>>

\* await ctx.reply('Busca concluida com sucesso!')
ReplyDone ==
  /\ pc = "replyDone"
  /\ Send("done", 0, "deleteMessage", Catch)
  /\ UNCHANGED <<pageVars, overlapVars, sessionVars, handlerVars, files>>

\* try { await ctx.deleteMessage(processingMessage.message_id) } catch { log }
DeleteMessage ==
  /\ pc = "deleteMessage"
  /\ Send("delete", 0, "done", "done")
  /\ UNCHANGED <<pageVars, overlapVars, sessionVars, handlerVars, files>>

\* catch (error) { log; await ctx.reply('Ocorreu um erro inesperado') }: a throw
\* of this reply leaves the handler (bot.catch logs it)
GeneralFailure ==
  /\ pc = Catch
  /\ Send("failure", 0, "done", "done")
  /\ UNCHANGED <<pageVars, overlapVars, sessionVars, handlerVars, files>>

Handler ==
  \/ Command \/ ReplyProcessing \/ EnsureDirectories
  \/ CallGetTopDecks \/ AwaitGetTopDecks \/ ReplyEmpty
  \/ CallScreenshot \/ AwaitScreenshot \/ ReplyWithPhoto \/ ReplySkip
  \/ GeneratePDF \/ ReplyWithDocument \/ ReplyWarning
  \/ SaveToHistory \/ CleanupFiles \/ ReplyDone \/ DeleteMessage \/ GeneralFailure

(* --------------------- direct calls of the exports -------------------- *)
\* an exported scraper function is called on its own
DirectCall ==
  /\ pc = "idle"
  /\ \/ \E n \in 0..MaxLimit : Enter("getTopDecks", n, 0)
     \/ Enter("screenshotDeckPage", 0, 1)
     \/ Enter("getDeckDetailedInfo", 0, 0)
     \/ Enter("checkWebsiteHealth", 0, 0)
  /\ pc' = "direct"
  /\ UNCHANGED <<pageVars, overlapVars, handlerVars, files>>

\* the direct caller has its result
DirectReturn ==
  /\ pc = "direct" /\ spc = "returned"
  /\ pc' = "done"
  /\ UNCHANGED <<pageVars, overlapVars, sessionVars, handlerVars, files, log>>

Next == Handler \/ Session \/ DirectCall \/ DirectReturn

Spec == Init /\ [][Next]_vars

(* ------------------------------ the log -------------------------------- *)
\* the positions of the events named e in a log
At(l, e) == {k \in 1..Len(l) : l[k].e = e}
\* how many events named e a log holds
Count(l, e) == Cardinality(At(l, e))
\* the items (or files) of the events named e with outcome ok
Items(l, e, ok) == {l[k].i : k \in {j \in At(l, e) : l[j].ok = ok}}
\* the items of the events named e with outcome ok, in the order they happened
ItemSeq(l, e, ok) ==
  LET sel == SelectSeq(l, LAMBDA x : x.e = e /\ x.ok = ok)
  IN [k \in 1..Len(sel) |-> sel[k].i]
StrictlyIncreasing(s) == \A k \in 1..(Len(s) - 1) : s[k] < s[k + 1]

\* the entry in progress is a /topdecks batch
IsBatch == Len(log) > 0 /\ log[1].e = "command"
\* the items whose screenshotDeckPage call returned a path
Captured == Items(log, "captured", TRUE)
\* the browser of the call in progress was launched
Launched == Count(slog, "launch") = 1

(* ------------------------------- claims -------------------------------- *)

\* C1: in every call of withBrowser whose launch succeeded, browser.close is
\* invoked exactly once and before the call returns, whether the inner
\* operation returned or threw; a returned call holds no open browser handle
\* (a handle whose close was invoked counts as released, also when the close
\* itself failed: close is best effort).
C1_BrowserClosedExactlyOnce ==
  /\ Count(slog, "browser.close") <= 1
  /\ Count(slog, "browser.close") = 1 => Launched
  /\ spc = "returned" =>
       /\ browser # "open"
       /\ Launched =>
            /\ Count(slog, "browser.close") = 1
            /\ \A c \in At(slog, "browser.close"), r \in At(slog, "return") : c < r
       /\ ~Launched => browser = "none"

\* C1 witness: a call whose inner operation threw after the launch has returned
C1_Witness ==
  /\ spc = "returned" /\ Launched /\ pend.kind = "error"
  /\ op = "screenshotDeckPage" /\ pend.val.origin = "goto"

\* C2: every page opened by withPage has page.close invoked before withPage
\* returns, on every exit path, also when configuring the page (setViewport,
\* setUserAgent) throws; and the page close comes before the browser close.
C2_PageClosedOnEveryPath ==
  (spc = "returned" /\ Count(slog, "newPage") = 1) =>
    /\ Count(slog, "page.close") = 1
    /\ \A p \in At(slog, "page.close"), c \in At(slog, "browser.close") : p < c

\* C3: in a finished batch, whenever screenshotDeckPage threw for item k, it
\* was still called for each of the items k+1..N.
C3_FailureIsolation ==
  (pc = "done" /\ IsBatch) =>
    \A k \in Items(log, "captured", FALSE) :
      \A j \in (k + 1)..Len(decks) : j \in Items(log, "screenshotDeckPage", TRUE)

\* the files whose deletion was attempted and failed
UnlinkFailed == Items(log, "unlink", FALSE)

\* C4: when the handler has finished, every file created in the screenshots
\* directory during the batch is deleted (a file whose unlink itself failed
\* is left out of the statement).
C4_NoTempFileLeft ==
  (pc = "done" /\ IsBatch) => files \subseteq UnlinkFailed

\* the items whose photo was delivered, in the order of delivery
Delivered == ItemSeq(log, "photo", TRUE)

\* C5 as claimed: in a finished batch the delivered photos are exactly the
\* items whose screenshot succeeded, in strictly increasing rank order.
C5_DeliveredAreTheCaptured ==
  (pc = "done" /\ IsBatch) =>
    /\ StrictlyIncreasing(Delivered)
    /\ Range(Delivered) = Captured

\* C5, amended: the delivered photos are exactly the items whose screenshot
\* and whose photo send both succeeded, in strictly increasing rank order
\* (so none twice); an item just captured is delivered or refused at the next step.
C5_DeliveredAreCapturedAndSent ==
  IsBatch =>
    /\ StrictlyIncreasing(Delivered)
    /\ Range(Delivered) \subseteq Captured
    /\ pc # "replyWithPhoto" =>
         Range(Delivered) = Captured \ Items(log, "photo", FALSE)

\* C5 witness: a finished batch of three, item 2 captured but its photo refused
C5_Witness ==
  /\ pc = "done" /\ IsBatch
  /\ Delivered = <<1, 3>>
  /\ Captured = {1, 2, 3}

\* C6: a PDF that was produced has exactly one page per captured artifact, in
\* rank order, and the title on page 1 only.
C6_PdfPagesAreTheCaptured ==
  pdf # <<>> =>
    /\ Len(pdf) = Cardinality(Captured)
    /\ {pdf[k].img : k \in 1..Len(pdf)} = Captured
    /\ \A k \in 1..(Len(pdf) - 1) : pdf[k].img < pdf[k + 1].img
    /\ \A k \in 1..Len(pdf) : pdf[k].title <=> (k = 1)

\* C6 witness: a two-page PDF of a batch of three whose item 2 was not captured
C6_Witness ==
  /\ Len(pdf) = 2 /\ Len(decks) = 3
  /\ Captured = {1, 3}

\* C7: checkWebsiteHealth never throws; it returns true exactly when the
\* navigation gave a response with status 200, and false when anything threw,
\* when there was no response and when the status is another one.
C7_HealthNeverThrows ==
  (op = "checkWebsiteHealth" /\ spc = "returned") =>
    /\ ret.kind = "value"
    /\ ret.val <=> (nav.kind = "response" /\ nav.present /\ nav.status = 200)

\* C7 witness: a probe whose page configuration threw has returned false
C7_Witness ==
  /\ op = "checkWebsiteHealth" /\ spc = "returned"
  /\ pend.kind = "error" /\ pend.val.origin = "setUserAgent"
  /\ ret = Val(FALSE)

\* C8: with no failure of the browser or the network, getTopDecks(N) on a
\* page of M rows returns min(N, M) items, the item at index i at position i + 1.
C8_ReturnsMinOfLimitAndRows ==
  (op = "getTopDecks" /\ spc = "returned" /\ ~fault) =>
    /\ ret.kind = "value"
    /\ Len(ret.val) = Min(limit, Len(rows))
    /\ \A k \in 1..Len(ret.val) : ret.val[k].position = k

\* the events of the batch after the one at position k
After(k) == SubSeq(log, k + 1, Len(log))

\* C9: in a finished batch in which generatePDF or the document delivery
\* failed after a photo was delivered, one warning was sent, no message other
\* than the processing notice was deleted, and the history append, the
\* cleanup and the completion acknowledgment all took place.
C9_AssemblyFailureIsolated ==
  (/\ pc = "done" /\ IsBatch
   /\ Len(Delivered) > 0
   /\ FALSE \in ({log[k].ok : k \in At(log, "generatePDF")}
                   \cup {log[k].ok : k \in At(log, "document")})) =>
    /\ Items(log, "warning", TRUE) # {}
    /\ Count(log, "warning") = 1
    /\ Count(log, "delete") <= 1
    /\ Count(log, "saveToHistory") = 1
    /\ Count(log, "cleanupFiles") = 1
    /\ Count(log, "done") = 1

\* getTopDecks returned the empty list to the handler
ListedEmpty == \E k \in At(log, "listed") : log[k].ok /\ log[k].i = 0

\* C10 as claimed: a batch calls getTopDecks once; after an empty list
\* the "no items found" message is sent and nothing else follows it.
C10_EmptyListStops ==
  IsBatch =>
    /\ Count(log, "getTopDecks") <= 1
    /\ Count(log, "listed") = 1 => Count(log, "getTopDecks") = 1
    /\ (pc = "done" /\ ListedEmpty) =>
         \A k \in At(log, "listed") : After(k) = <<Ev("empty", 0, TRUE)>>

\* C10, amended: a batch calls getTopDecks at most once, and once when it gets
\* as far as the listing; after an empty list the handler sends "no items
\* found" and stops: no screenshot, PDF, history append or completion
\* acknowledgment follows, and the general failure message follows only when
\* the "no items found" send itself threw.
C10_EmptyListStopsUnlessSendFails ==
  IsBatch =>
    /\ Count(log, "getTopDecks") <= 1
    /\ Count(log, "listed") = 1 => Count(log, "getTopDecks") = 1
    /\ ListedEmpty =>
         /\ pc \in {"replyEmpty", "catch", "done"}
         /\ \A k \in At(log, "listed") :
              \/ After(k) = <<>> /\ pc = "replyEmpty"
              \/ After(k) = <<Ev("empty", 0, TRUE)>> /\ pc = "done"
              \/ After(k) = <<Ev("empty", 0, FALSE)>> /\ pc = "catch"
              \/ /\ Len(After(k)) = 2 /\ pc = "done"
                 /\ After(k)[1] = Ev("empty", 0, FALSE)
                 /\ After(k)[2].e = "failure"

\* C10 witness: an empty list, the message sent, the handler finished
C10_Witness ==
  /\ pc = "done" /\ ListedEmpty
  /\ Items(log, "empty", TRUE) # {}

\* getTopDecks returned a list of at least one item to the handler
ListedSome == \E k \in At(log, "listed") : log[k].ok /\ log[k].i > 0

\* C11: a finished batch with a non-empty list has called saveToHistory once,
\* and unless the write itself failed the history holds one line per item of
\* the list, in rank order, whatever happened to the item.
C11_HistoryLinePerItem ==
  (pc = "done" /\ IsBatch /\ ListedSome) =>
    /\ Count(log, "saveToHistory") = 1
    /\ Items(log, "saveToHistory", FALSE) = {} => history = HistoryLines(decks)

(* --------------- getTopDecks on pages with every kind of href ----------- *)
\* rows whose link has a relative href with and without a leading slash, an
\* absolute href, and a relative href whose text begins with "http"
ListRowKinds ==
  { [href |-> h, text |-> "A", player |-> "P"] :
      h \in { <<"/", "d">>, <<"d">>,
              <<"h", "t", "t", "p", ":", "/", "/", "x">>,
              <<"h", "t", "t", "p", "d">> } }

InitList ==
  /\ rows \in SeqsUpTo(ListRowKinds, MaxListRows)
  /\ headLink = FALSE
  /\ Quiescent

\* getTopDecks(n) is called on its own
ListCall ==
  /\ pc = "idle"
  /\ \E n \in 0..MaxLimit : Enter("getTopDecks", n, 0)
  /\ pc' = "direct"
  /\ UNCHANGED <<pageVars, overlapVars, handlerVars, files>>

NextList ==
  \/ ListCall \/ Launch \/ NewPage \/ Configure \/ Goto \/ WaitForSelector
  \/ Evaluate \/ PageClose \/ BrowserClose \/ Leave \/ DirectReturn

SpecList == InitList /\ [][NextList]_vars

\* an href that names its own origin: it starts with a scheme and "//"
IsAbsoluteHref(href) ==
  \/ StartsWith(href, <<"h", "t", "t", "p", ":", "/", "/">>)
  \/ StartsWith(href, <<"h", "t", "t", "p", "s", ":", "/", "/">>)

\* C12: the url of every returned item whose row has a link is the href
\* itself when the href is absolute, and the base origin followed by the href
\* when it is relative (leading slash or not, beginning with "http" or not).
C12_UrlIsAbsolute ==
  (op = "getTopDecks" /\ spc = "returned" /\ ret.kind = "value") =>
    \A k \in 1..Len(ret.val) :
      HasLink(rows[k]) =>
        ret.val[k].url = IF IsAbsoluteHref(rows[k].href) THEN rows[k].href
                         ELSE BASE_URL \o rows[k].href

\* C13: a close that fails changes nothing of the result: while the finally
\* blocks of withPage and withBrowser run, the completion of the inner
\* operation stays what it was, and withBrowser hands exactly that value or
\* error to its caller.
C13_CloseFailureNotRethrown ==
  [][/\ spc \in {"pageClose", "browserClose"} => pend' = pend
     /\ (spc = "leave" /\ op # "checkWebsiteHealth") => ret' = pend]_vars

\* C13 witness: both closes failed and the call still returned its list
C13_Witness ==
  /\ spc = "returned" /\ op = "getTopDecks"
  /\ page = "closeFailed" /\ browser = "closeFailed"
  /\ ret.kind = "value" /\ Len(ret.val) = 2

\* the handler is suspended on a scraper call
Awaiting == pc \in {"awaitGetTopDecks", "awaitScreenshot"}

\* C14: within one batch at most one browser is open at any moment.  A browser
\* is open only inside the scraper call the handler is suspended on, and not
\* any more once that call has returned; while the handler sends to the sink no
\* session exists; the session of item 1 starts right after the listing call
\* has returned, and the session of item j + 1 right after the photo or the
\* skip notice of item j went out, the session of item j having returned before.
C14_OneBrowserAtATime ==
  IsBatch =>
    /\ browser = "open" => (Awaiting /\ spc \notin {"none", "leave", "returned"})
    /\ ~Awaiting => (spc = "none" /\ browser = "none")
    /\ \A p \in At(log, "screenshotDeckPage") :
         /\ p > 1
         /\ IF log[p].i = 1
              THEN log[p - 1] = Ev("listed", Len(decks), TRUE)
              ELSE /\ log[p - 1] \in {Ev("photo", log[p].i - 1, TRUE),
                                      Ev("skip", log[p].i - 1, TRUE)}
                   /\ \E q \in At(log, "captured") : q < p /\ log[q].i = log[p].i - 1
         /\ \A q \in At(log, "getTopDecks") \cup At(log, "listed") : q < p

\* C14 witness: the browser of item 2 is open, after item 1 was skipped
C14_Witness ==
  /\ IsBatch /\ pc = "awaitScreenshot" /\ target = 2 /\ browser = "open"
  /\ Ev("skip", 1, TRUE) = log[Len(log) - 1]

\* every event named a comes before every event named b in the handler's log
Before(a, b) == \A x \in At(log, a), y \in At(log, b) : x < y

\* the closing steps that did run came in the order document, history,
\* cleanup, acknowledgment
ClosingOrder ==
  /\ Before("photo", "document") /\ Before("skip", "document")
  /\ Before("document", "saveToHistory") /\ Before("generatePDF", "saveToHistory")
  /\ Before("saveToHistory", "cleanupFiles")
  /\ Before("cleanupFiles", "done")
  /\ Count(log, "done") = 1 => Count(log, "cleanupFiles") = 1

\* C15: in a finished batch whose list was not empty the closing steps come in
\* the order PDF delivery, history append, temp-file cleanup, completion
\* acknowledgment, and the acknowledgment is sent, once, in every such batch.
C15_ClosingStepsInOrder ==
  (pc = "done" /\ IsBatch /\ ListedSome) =>
    /\ ClosingOrder
    /\ Count(log, "saveToHistory") = 1
    /\ Count(log, "cleanupFiles") = 1
    /\ Count(log, "done") = 1

\* the steps of getTopDecks inside its own try block
ListingSteps == {"goto", "waitForSelector", "evaluate"}

\* the events of the handler's log after a listing call that threw
AfterListingFailure ==
  {After(k) : k \in {j \in At(log, "listed") : ~log[j].ok}}

\* C16: a getTopDecks call that got as far as its page and then failed at the
\* navigation, the selector wait or the extraction throws one wrapped error
\* and no list, and a call that returns a list returns the whole extraction;
\* after a listing call that threw, the handler issues the general failure
\* message once and does nothing else: no screenshot call, no PDF, no history
\* append, no acknowledgment.
C16_ListingFailureIsOneError ==
  /\ (op = "getTopDecks" /\ spc = "returned" /\ Count(slog, "page.close") = 1) =>
       IF fault \/ ~TableLinkPresent
         THEN /\ ret.kind = "error"
              /\ ret.val.msg = "Falha ao buscar decks"
              /\ ret.val.origin \in ListingSteps
         ELSE ret = Val(ExtractDecks(rows, limit))
  /\ IsBatch =>
       \A tail \in AfterListingFailure :
         /\ tail \in {<<>>, <<Ev("failure", 0, TRUE)>>, <<Ev("failure", 0, FALSE)>>}
         /\ pc = "done" => Len(tail) = 1
         /\ pc \in {Catch, "done"}
         /\ pdf = <<>> /\ history = <<>> /\ files = {}

\* C16 witness: the listing threw and the batch ended with the failure message
C16_Witness ==
  /\ IsBatch /\ pc = "done"
  /\ AfterListingFailure = {<<Ev("failure", 0, TRUE)>>}
  /\ ~TableLinkPresent

\* C17: cleanupFiles never raises and tries every path.  Whenever it has run,
\* the unlink of each path of its list was attempted, in the list's order,
\* whichever of them failed; every path whose unlink did not fail is gone; and
\* the handler went on to the acknowledgment, never to the failure message.
C17_CleanupNeverRaises ==
  IsBatch =>
    \A c \in At(log, "cleanupFiles") :
      /\ log[c].i = Len(tempFiles)
      /\ \A k \in 1..Len(tempFiles) :
           /\ log[c - Len(tempFiles) + k - 1].e = "unlink"
           /\ log[c - Len(tempFiles) + k - 1].i = tempFiles[k]
      /\ Count(log, "unlink") = Len(tempFiles)
      /\ \A f \in Range(tempFiles) \ UnlinkFailed : f \notin files
      /\ log[c].ok <=> UnlinkFailed = {}
      /\ pc \in {"replyDone", "deleteMessage", "done", Catch}
      /\ c < Len(log) => log[c + 1].e = "done"

\* C17 witness: the first unlink failed, a later one went through, and the
\* batch was acknowledged
C17_Witness ==
  /\ IsBatch /\ pc = "done" /\ Count(log, "done") = 1
  /\ \E a, b \in At(log, "unlink") : a < b /\ ~log[a].ok /\ log[b].ok

\* C18: a finished batch with a non-empty list in which no screenshot succeeded
\* has not called generatePDF and has sent no document, and it is not an
\* error: the history append, the cleanup and the acknowledgment took place
\* and no general failure message was sent.
C18_NoCaptureNoPdf ==
  (pc = "done" /\ IsBatch /\ ListedSome /\ Captured = {}) =>
    /\ Count(log, "generatePDF") = 0 /\ Count(log, "document") = 0
    /\ pdf = <<>>
    /\ Count(log, "saveToHistory") = 1
    /\ Count(log, "cleanupFiles") = 1
    /\ Count(log, "done") = 1
    /\ Count(log, "failure") = 0

\* the items a skip notice was issued for, delivered or not
SkipIssued == Items(log, "skip", TRUE) \cup Items(log, "skip", FALSE)
\* the items of the pages of the PDF, in page order
PageItems == [k \in 1..Len(pdf) |-> pdf[k].img]

MaxClock == 1
MaxOverlapDecks == 2

\* mutant: the screenshot's name leaves out the item index
PngName_NoIndex(t, i) == <<"deck", t>>

\* `deck_${Date.now()}_${i + 1}.png`, i1 = i + 1
PngName(t, i1) == <<"deck", t, i1>>

\* path.join(SCREENSHOTS_DIR, `top_decks_${Date.now()}.pdf`)
PdfName(t) == <<"top_decks", t>>

\* a file is written at path p by handler b: what was there is replaced
Write(d, p, b) == {f \in d : f[1] # p} \cup {<<p, b>>}
\* the file at path p is there as handler b wrote it
Intact(d, p, b) == <<p, b>> \in d
\* the paths among ps that handler b does not find as it wrote them
Missing(d, ps, b) == {p \in ps : ~Intact(d, p, b)}

InitOverlap == rows = <<>> /\ headLink = FALSE /\ Quiescent

OverlapFrame == UNCHANGED <<pageVars, sessionVars, handlerVars, pc, files, log>>

\* Date.now() advances
Tick ==
  /\ now < MaxClock
  /\ now' = now + 1
  /\ UNCHANGED <<bat, disk>> /\ OverlapFrame

\* a /topdecks handler is dispatched and has its non-empty list
BatchStart(b) ==
  /\ bat[b].pc = "idle"
  /\ \E n \in 1..MaxOverlapDecks :
       bat' = [bat EXCEPT ![b].pc = "name", ![b].n = n]
  /\ UNCHANGED <<now, disk>> /\ OverlapFrame

\* const fileName = `deck_${Date.now()}_${i + 1}.png`
BatchName(b) ==
  /\ bat[b].pc = "name"
  /\ bat' = [bat EXCEPT ![b].pc = "shot",
                        ![b].cur = PngName(now, bat[b].idx + 1),
                        ![b].curStamp = [kind |-> "png", t |-> now, i |-> bat[b].idx + 1]]
  /\ UNCHANGED <<now, disk>> /\ OverlapFrame

\* where the loop goes after item i (0-based) is done
BatchAfterItem(r) ==
  IF r.idx + 1 < r.n THEN "name"
  ELSE IF Len(r.imagePaths) > 0 THEN "pdf" ELSE "cleanup"

\* await screenshotDeckPage(deck.url, fileName): the file is written and the
\* path pushed on imagePaths and tempFiles, or the call throws and the item
\* is skipped
BatchShot(b) ==
  /\ bat[b].pc = "shot"
  /\ \/ /\ disk' = Write(disk, bat[b].cur, b)
        /\ bat' = [bat EXCEPT ![b].pc = "photo",
                              ![b].imagePaths = Append(@, bat[b].cur),
                              ![b].tempFiles = Append(@, bat[b].cur),
                              ![b].stamps = Append(@, bat[b].curStamp)]
     \/ /\ bat' = [bat EXCEPT ![b].pc = BatchAfterItem(bat[b]), ![b].idx = @ + 1]
        /\ UNCHANGED disk
  /\ UNCHANGED now /\ OverlapFrame

\* await ctx.replyWithPhoto({ source: screenshotPath }): the file is read
BatchPhoto(b) ==
  /\ bat[b].pc = "photo"
  /\ bat' = [bat EXCEPT ![b].pc = BatchAfterItem(bat[b]), ![b].idx = @ + 1,
                        ![b].lost = @ \cup Missing(disk, {bat[b].cur}, b)]
  /\ UNCHANGED <<now, disk>> /\ OverlapFrame

\* const pdfPath = await generatePDF(imagePaths); tempFiles.push(pdfPath): the
\* images are read, the PDF is written
BatchPdf(b) ==
  /\ bat[b].pc = "pdf"
  /\ disk' = Write(disk, PdfName(now), b)
  /\ bat' = [bat EXCEPT ![b].pc = "document",
                        ![b].cur = PdfName(now),
                        ![b].tempFiles = Append(@, PdfName(now)),
                        ![b].stamps = Append(@, [kind |-> "pdf", t |-> now, i |-> 0]),
                        ![b].lost = @ \cup Missing(disk, Range(bat[b].imagePaths), b)]
  /\ UNCHANGED now /\ OverlapFrame

\* await ctx.replyWithDocument({ source: pdfPath }): the PDF is read
BatchDocument(b) ==
  /\ bat[b].pc = "document"
  /\ bat' = [bat EXCEPT ![b].pc = "cleanup",
                        ![b].lost = @ \cup Missing(disk, {bat[b].cur}, b)]
  /\ UNCHANGED <<now, disk>> /\ OverlapFrame

\* await cleanupFiles(tempFiles): every path of the list is unlinked
BatchCleanup(b) ==
  /\ bat[b].pc = "cleanup"
  /\ disk' = {f \in disk : f[1] \notin Range(bat[b].tempFiles)}
  /\ bat' = [bat EXCEPT ![b].pc = "done"]
  /\ UNCHANGED now /\ OverlapFrame

NextOverlap ==
  \/ Tick
  \/ \E b \in Batches :
       \/ BatchStart(b) \/ BatchName(b) \/ BatchShot(b) \/ BatchPhoto(b)
       \/ BatchPdf(b) \/ BatchDocument(b) \/ BatchCleanup(b)

SpecOverlap == InitOverlap /\ [][NextOverlap]_vars

\* the paths the cleanup sets of the two handlers have in common
SharedPaths == Range(bat[1].tempFiles) \cap Range(bat[2].tempFiles)

\* C20 as claimed: the cleanup sets of two overlapping handlers are disjoint,
\* and no handler reads a file that the other one has overwritten or deleted.
C20_PathsNeverShared ==
  /\ SharedPaths = {}
  /\ \A b \in Batches : bat[b].lost = {}

\* C20 amended: the names come from the millisecond clock and the item index
\* only.  A path that is in both cleanup sets was named by both handlers for
\* the same kind of file, in the same millisecond and for the same item index;
\* and a handler finds a file of its own overwritten or deleted only at a path
\* that the other handler has in its cleanup set too.
C20_SharedOnlyInSameMillisecond ==
  /\ \A j \in DOMAIN bat[1].tempFiles, k \in DOMAIN bat[2].tempFiles :
       bat[1].tempFiles[j] = bat[2].tempFiles[k] =>
         bat[1].stamps[j] = bat[2].stamps[k]
  /\ \A b \in Batches : bat[b].lost \subseteq SharedPaths

\* C20 witness: both handlers have finished, they named a screenshot alike, and
\* the first one did not find its file as it wrote it
C20_Witness ==
  /\ \A b \in Batches : bat[b].pc = "done"
  /\ SharedPaths # {}
  /\ bat[1].lost # {}

====
